---- MODULE Spec2Model ----
(***************************************************************************)
(* Dictamed: transcript alignment tracker of AudioUpload                   *)
(* (src/components/audio-upload.tsx, hosted alone by src/app/page.tsx) and *)
(* of AudioInput (src/components/audio-input.tsx, hosted by                *)
(* src/unnamed/part_000 with a nested AudioUpload / AudioRecorder).        *)
(*                                                                         *)
(* Times are integers in tenths of a second.  Word and segment indices are *)
(* 0-based as in the source; unit i of a sequence s is s[i + 1].           *)
(* The <audio> element, the user and the transcription endpoint are the    *)
(* environment: the element keeps currentTime / paused and a set of media  *)
(* events it has fired and React has not yet dispatched.  The element      *)
(* moves on (a gesture on it or on a unit, playback advancing) only once   *)
(* the events it fired before have been dispatched; clock updates and the  *)
(* other handlers interleave freely with that dispatch.                    *)
(***************************************************************************)
EXTENDS Integers, Sequences, FiniteSets, TLC

\* ------------------------------------------------------------------ bounds
\* transcription attempts (object URLs created) in one behaviour
MaxUrls == 2
\* longest word sequence drawn for the locate() specification
MaxLen == 3
\* start button clicks in one run of the recorder
MaxStarts == 2
\* chunks the MediaRecorders of one run deliver
MaxChunks == 2

\* ------------------------------------------------------------- value space
\* clock readings and unit boundaries, in tenths of a second
Times == {0, 5, 12, 20, 30}
\* length of every audio payload: the last instant of Times
Duration == CHOOSE t \in Times : \A u \in Times : u <= t

\* currentWordIndex === null
NoWord == -1
\* no seek command issued
NoSeek == -1
\* no object URL / no file
NoUrl == 0

Unit(s, e) == [start |-> s, end |-> e]

\* instants a drawn word may start or end at (Times also holds instants strictly
\* between them and after the last)
Boundaries == {0, 10, 15, 25}

\* WordTimestamp reduced to the fields the tracker reads (0 <= start <= end);
\* sequences of them may be unsorted and may overlap
Units == {u \in {Unit(s, e) : s \in Boundaries, e \in Boundaries} : u.start <= u.end}

RECURSIVE SeqsUpTo(_, _)
SeqsUpTo(S, n) ==
  IF n = 0 THEN {<<>>}
  ELSE LET shorter == SeqsUpTo(S, n - 1)
       IN shorter \cup {Append(q, u) : q \in {r \in shorter : Len(r) = n - 1}, u \in S}

\* TranscriptionResult: `words` / `segments` are optional arrays, audioUrl is
\* the object URL attached by the component (NoUrl on a vendor response)
MkResult(hasW, w, hasS, s) ==
  [present |-> TRUE, hasWords |-> hasW, words |-> w,
   hasSegments |-> hasS, segments |-> s, audioUrl |-> NoUrl]

\* transcriptionResult === null
NoResult ==
  [present |-> FALSE, hasWords |-> FALSE, words |-> <<>>,
   hasSegments |-> FALSE, segments |-> <<>>, audioUrl |-> NoUrl]

WordsGap == <<Unit(0, 10), Unit(15, 25)>>
WordsOverlap == <<Unit(0, 12), Unit(5, 20), Unit(20, 30)>>
SegsTwo == <<Unit(0, 12), Unit(12, 30)>>

\* bodies the endpoint may answer with (response.json() of an OK response)
Responses ==
  { MkResult(TRUE, WordsGap, FALSE, <<>>),
    MkResult(TRUE, WordsOverlap, TRUE, SegsTwo),
    MkResult(TRUE, <<>>, FALSE, <<>>),
    MkResult(FALSE, <<>>, TRUE, SegsTwo),
    MkResult(FALSE, <<>>, FALSE, <<>>) }

\* unit indices a click may aim at: every index of the longest transcript and the
\* first one past it
ClickTargets == 0..Len(WordsOverlap)

\* errorData.error || "Transcription failed"
ErrorStrings == {"Transcription failed", "Failed to transcribe audio. Please try again."}
NoError == "null"

\* the strings AudioRecorder hands to onRecordingError
RecorderErrorStrings ==
  {"Microphone permission denied. Please allow microphone access to record audio.",
   "Failed to access microphone. Please check your permissions.",
   "Failed to start recording. Please try again."}

\* ------------------------------------------------ POST /api/transcribe
\* const maxSize = 25 * 1024 * 1024
maxSize == 25 * 1024 * 1024

\* file.type, one character per element
AudioPrefix == <<"a", "u", "d", "i", "o", "/">>
MimeTypes ==
  { AudioPrefix \o <<"w", "a", "v">>,
    AudioPrefix,
    <<"a", "u", "d", "i", "o">>,
    <<"v", "i", "d", "e", "o", "/", "a", "u", "d", "i", "o", "/">>,
    <<>> }

\* String.prototype.startsWith
startsWith(str, prefix) ==
  Len(str) >= Len(prefix) /\ SubSeq(str, 1, Len(prefix)) = prefix

\* file.size values around the limit
FileSizes == {0, 1, maxSize - 1, maxSize, maxSize + 1}

\* what openai.audio.transcriptions.create does when called: it resolves with a
\* transcription (segments, and possibly words), or it throws an Error whose
\* message mentions some of the phrases the handler looks for
VendorOutcomes ==
  {[ok |-> TRUE, mentions |-> {}, segments |-> sg, words |-> w] :
     sg \in {<<>>, SegsTwo}, w \in {<<>>, WordsOverlap}}
    \cup {[ok |-> FALSE, mentions |-> m, segments |-> <<>>, words |-> <<>>] :
            m \in SUBSET {"API key", "quota"}}

\* audio: what formData.get("audio") yields: "unreadable" (request.formData()
\* rejects), "none" (null or ""), "text" (a non-empty string field), "file"
Requests ==
  [audio : {"unreadable", "none", "text", "file"}, type : MimeTypes,
   size : FileSizes, vendor : VendorOutcomes]

NoRequest ==
  [audio |-> "none", type |-> <<>>, size |-> 0,
   vendor |-> [ok |-> TRUE, mentions |-> {}, segments |-> <<>>, words |-> <<>>]]

\* metadata of a result body (processedAt, the time of the call, left out)
Metadata == [model |-> "whisper-1", medicalContext |-> TRUE, confidence |-> "high"]
NoMetadata == [model |-> "", medicalContext |-> FALSE, confidence |-> ""]

\* NextResponse.json(body, {status}): keys of the body, body.error, the unit
\* sequences and metadata of a result body, and whether the speech-to-text
\* service was called on the way
Answer(status, err, called) ==
  [status |-> status, error |-> err, called |-> called,
   keys |-> IF status = 200
            THEN {"text", "duration", "language", "segments", "metadata"}
            ELSE {"error"},
   segments |-> <<>>, words |-> <<>>,
   metadata |-> IF status = 200 THEN Metadata ELSE NoMetadata]

NoResponse ==
  [status |-> 0, error |-> NoError, called |-> FALSE, keys |-> {},
   segments |-> <<>>, words |-> <<>>, metadata |-> NoMetadata]

\* mutant: the words of the transcription are passed on as well
Success_ForwardsWords(transcription) ==
  [Answer(200, NoError, TRUE) EXCEPT
     !.keys = @ \cup {"words"},
     !.segments = transcription.segments,
     !.words = transcription.words]

\* const response = {text, duration, language, segments, metadata}
Success(transcription) ==
  [Answer(200, NoError, TRUE) EXCEPT !.segments = transcription.segments]

\* mutant: the quota test is made before the API key test
CatchResponse_QuotaFirst(mentions, called) ==
  IF "quota" \in mentions
    THEN Answer(429, "API quota exceeded. Please try again later.", called)
  ELSE IF "API key" \in mentions
    THEN Answer(500, "OpenAI API key not configured", called)
  ELSE Answer(500, "Failed to transcribe audio. Please try again.", called)

\* the catch block of POST
CatchResponse(mentions, called) ==
  IF "API key" \in mentions THEN Answer(500, "OpenAI API key not configured", called)
  ELSE IF "quota" \in mentions
    THEN Answer(429, "API quota exceeded. Please try again later.", called)
  ELSE Answer(500, "Failed to transcribe audio. Please try again.", called)

\* mutant: a file of exactly maxSize bytes is turned away
PostResponse_SizeInclusive(req) ==
  IF req.audio = "unreadable" THEN CatchResponse({}, FALSE)
  ELSE IF req.audio = "none" THEN Answer(400, "No audio file provided", FALSE)
  ELSE IF req.audio = "text" THEN CatchResponse({}, FALSE)
  ELSE IF ~startsWith(req.type, AudioPrefix)
    THEN Answer(400, "Invalid file type. Please upload an audio file.", FALSE)
  ELSE IF req.size >= maxSize
    THEN Answer(400, "File too large. Maximum size is 25MB.", FALSE)
  ELSE IF req.vendor.ok THEN Success(req.vendor)
  ELSE CatchResponse(req.vendor.mentions, TRUE)

\* the body of POST, top to bottom; a string field has no .type, so
\* file.type.startsWith throws a TypeError into the catch block
PostResponse(req) ==
  IF req.audio = "unreadable" THEN CatchResponse({}, FALSE)
  ELSE IF req.audio = "none" THEN Answer(400, "No audio file provided", FALSE)
  ELSE IF req.audio = "text" THEN CatchResponse({}, FALSE)
  ELSE IF ~startsWith(req.type, AudioPrefix)
    THEN Answer(400, "Invalid file type. Please upload an audio file.", FALSE)
  ELSE IF req.size > maxSize
    THEN Answer(400, "File too large. Maximum size is 25MB.", FALSE)
  ELSE IF req.vendor.ok THEN Success(req.vendor)
  ELSE CatchResponse(req.vendor.mentions, TRUE)

VARIABLES
  host,                 \* "upload": page.tsx hosts AudioUpload; "input": part_000 hosts AudioInput
  mounted,              \* the hosted component has not been torn down
  mode,                 \* AudioInput.mode
  isTranscribing,       \* AudioInput.isTranscribing
  error,                \* Home.error (part_000)
  selectedFile,         \* AudioUpload.selectedFile (file id, NoUrl when null)
  isUploading,          \* AudioUpload.isUploading
  transcriptionResult,  \* transcriptionResult of the component that displays results
  currentWordIndex,     \* currentWordIndex?.wordIndex, NoWord when null
  isPlaying,            \* isPlaying
  audio,                \* the <audio> element behind audioRef
  pending,              \* media events fired by the element, not yet dispatched
  inflight,             \* transcription requests awaiting their response
  nextUrl,              \* next object URL id URL.createObjectURL returns
  revoked,              \* URL.revokeObjectURL calls per object URL
  dom,                  \* committed transcript view: kind, unit count, emphasised units
  lastOp,               \* handler that ran last ("env" after a step of the environment)
  effects,              \* commands the last handler issued
  failed,               \* object URLs created by an attempt that ended in its catch block
  request,              \* request handed to POST /api/transcribe (route.ts)
  response              \* what POST answered it with

\* AudioRecorder (audio-recorder.tsx): state, refs, and the browser around it
VARIABLES
  recMounted,           \* the AudioRecorder instance has not been unmounted
  hasPermission,        \* AudioRecorder.hasPermission ("null", "true", "false")
  isRecording,          \* AudioRecorder.isRecording
  isPaused,             \* AudioRecorder.isPaused
  mediaRecorderRef,     \* id of the MediaRecorder in mediaRecorderRef.current, NoRef when null
  streamRef,            \* id of the stream in streamRef.current
  audioContextRef,      \* id of the context in audioContextRef.current
  analyserRef,          \* id of the analyser in analyserRef.current
  timerRef,             \* id of the interval in timerRef.current
  animationRef,         \* id of the frame request in animationRef.current
  chunksRef,            \* chunksRef.current
  acquiring,            \* startRecording calls waiting in initializeAudioContext
  nextStart,            \* id of the next startRecording call
  recorders,            \* state of every MediaRecorder created so far
  captured,             \* the chunks every MediaRecorder has delivered since its start
  timers,               \* intervals set and not cleared; their callback advances the
                        \* displayed recordingTime, which nothing else reads
  frames,               \* animation frames requested and neither run nor cancelled
  completed,            \* the calls of onRecordingComplete, in order
  reports               \* the strings onRecordingError was called with, in order, by
                        \* every startRecording call

recorderVars == <<recMounted, hasPermission, isRecording, isPaused,
                  mediaRecorderRef, streamRef, audioContextRef, analyserRef,
                  timerRef, animationRef, chunksRef, acquiring, nextStart,
                  recorders, captured, timers, frames, completed, reports>>

vars == <<host, mounted, mode, isTranscribing, error, selectedFile, isUploading,
          transcriptionResult, currentWordIndex, isPlaying, audio, pending,
          inflight, nextUrl, revoked, dom, lastOp, effects, failed, request, response,
          recorderVars>>

\* useRef(null)
NoRef == 0

\* every start button click of a run gets an id; the stream, context, analyser,
\* MediaRecorder and frame loop made by call k carry the id k
Starts == 1..MaxStarts

\* AudioRecorder after its first render
RecorderInit ==
  /\ recMounted = TRUE
  /\ hasPermission = "null"
  /\ isRecording = FALSE
  /\ isPaused = FALSE
  /\ mediaRecorderRef = NoRef
  /\ streamRef = NoRef
  /\ audioContextRef = NoRef
  /\ analyserRef = NoRef
  /\ timerRef = NoRef
  /\ animationRef = NoRef
  /\ chunksRef = <<>>
  /\ acquiring = {}
  /\ nextStart = 1
  /\ recorders = [k \in Starts |-> "none"]
  /\ captured = [k \in Starts |-> <<>>]
  /\ timers = {}
  /\ frames = {}
  /\ completed = <<>>
  /\ reports = [k \in Starts |-> <<>>]

\* ----------------------------------------------------------------- locate
RECURSIVE FindFrom(_, _, _)
FindFrom(words, currentTime, wordIndex) ==
  IF wordIndex >= Len(words) THEN NoWord
  ELSE IF currentTime >= words[wordIndex + 1].start
          /\ currentTime <= words[wordIndex + 1].end
       THEN wordIndex
       ELSE FindFrom(words, currentTime, wordIndex + 1)

\* mutant: the closing bound is taken as exclusive
RECURSIVE FindFromExclusive(_, _, _)
FindFromExclusive(words, currentTime, wordIndex) ==
  IF wordIndex >= Len(words) THEN NoWord
  ELSE IF currentTime >= words[wordIndex + 1].start
          /\ currentTime < words[wordIndex + 1].end
       THEN wordIndex
       ELSE FindFromExclusive(words, currentTime, wordIndex + 1)

findCurrentWord_ExclusiveEnd(result, currentTime) ==
  IF ~(result.present /\ result.hasWords) THEN NoWord
  ELSE FindFromExclusive(result.words, currentTime, 0)

\* mutant: the scan keeps the last match instead of returning the first
RECURSIVE FindLast(_, _, _)
FindLast(words, currentTime, wordIndex) ==
  IF wordIndex < 0 THEN NoWord
  ELSE IF currentTime >= words[wordIndex + 1].start
          /\ currentTime <= words[wordIndex + 1].end
       THEN wordIndex
       ELSE FindLast(words, currentTime, wordIndex - 1)

findCurrentWord_LastMatch(result, currentTime) ==
  IF ~(result.present /\ result.hasWords) THEN NoWord
  ELSE FindLast(result.words, currentTime, Len(result.words) - 1)

\* mutant: a word stays current until the next one starts (end is not compared)
RECURSIVE FindStarted(_, _, _)
FindStarted(words, currentTime, wordIndex) ==
  IF wordIndex < 0 THEN NoWord
  ELSE IF currentTime >= words[wordIndex + 1].start
       THEN wordIndex
       ELSE FindStarted(words, currentTime, wordIndex - 1)

findCurrentWord_NoEnd(result, currentTime) ==
  IF ~(result.present /\ result.hasWords) THEN NoWord
  ELSE FindStarted(result.words, currentTime, Len(result.words) - 1)

findCurrentWord(result, currentTime) ==
  IF ~(result.present /\ result.hasWords) THEN NoWord
  ELSE FindFrom(result.words, currentTime, 0)

\* ----------------------------------------------------------------- render
NoDom == [kind |-> "none", count |-> 0, emphasised |-> {}]

\* mutant: the current word is emphasised whether or not audio is playing
RenderTranscript_IgnoresPlaying(result, cwi, playing, refTime) ==
  IF ~result.present THEN NoDom
  ELSE IF result.hasWords THEN
    [kind |-> "words", count |-> Len(result.words),
     emphasised |-> {i \in 0..(Len(result.words) - 1) : cwi = i}]
  ELSE IF result.hasSegments THEN
    [kind |-> "segments", count |-> Len(result.segments),
     emphasised |-> {i \in 0..(Len(result.segments) - 1) :
                        playing /\ refTime >= result.segments[i + 1].start
                                /\ refTime <= result.segments[i + 1].end}]
  ELSE [kind |-> "text", count |-> 0, emphasised |-> {}]

\* mutant: the segment sequence is rendered whenever the result carries one
RenderTranscript_SegmentsFirst(result, cwi, playing, refTime) ==
  IF ~result.present THEN NoDom
  ELSE IF result.hasSegments THEN
    [kind |-> "segments", count |-> Len(result.segments),
     emphasised |-> {i \in 0..(Len(result.segments) - 1) :
                        playing /\ refTime >= result.segments[i + 1].start
                                /\ refTime <= result.segments[i + 1].end}]
  ELSE IF result.hasWords THEN
    [kind |-> "words", count |-> Len(result.words),
     emphasised |-> {i \in 0..(Len(result.words) - 1) : cwi = i /\ playing}]
  ELSE [kind |-> "text", count |-> 0, emphasised |-> {}]

\* the transcript block of the JSX: words ? ... : segments ? ... : text
RenderTranscript(result, cwi, playing, refTime) ==
  IF ~result.present THEN NoDom
  ELSE IF result.hasWords THEN
    [kind |-> "words", count |-> Len(result.words),
     emphasised |-> {i \in 0..(Len(result.words) - 1) : cwi = i /\ playing}]
  ELSE IF result.hasSegments THEN
    [kind |-> "segments", count |-> Len(result.segments),
     emphasised |-> {i \in 0..(Len(result.segments) - 1) :
                        playing /\ refTime >= result.segments[i + 1].start
                                /\ refTime <= result.segments[i + 1].end}]
  ELSE [kind |-> "text", count |-> 0, emphasised |-> {}]

\* ------------------------------------------------------ the <audio> element
NoAudio == [mounted |-> FALSE, currentTime |-> 0, paused |-> TRUE]
FreshAudio == [mounted |-> TRUE, currentTime |-> 0, paused |-> TRUE]
NoEffects == [scroll |-> NoWord, seek |-> NoSeek, play |-> FALSE, target |-> NoWord]

\* React state of the hosted tree: a setter that changes none of it commits nothing
ReactState ==
  <<mode, isTranscribing, error, selectedFile, isUploading,
    transcriptionResult, currentWordIndex, isPlaying>>

\* audioRef.current?.currentTime || 0, read while rendering
RefTime == IF audio.mounted THEN audio.currentTime ELSE 0

\* The transcript is rendered again when state changed (fresh: a setter was given
\* a new object, which React never takes for the old one).
Rerender(fresh) ==
  dom' = IF fresh \/ ReactState' # ReactState
         THEN RenderTranscript(transcriptionResult', currentWordIndex',
                               isPlaying', RefTime)
         ELSE dom

\* What React commits after a handler that may replace the result: the <audio>
\* element exists exactly while a result with an audioUrl is displayed (it is kept,
\* with its playback state, when one result replaces another; a removed element's
\* events reach no handler); the cleanup of
\* useEffect(..., [transcriptionResult?.audioUrl]) revokes the previous URL when
\* the dependency changed.  explicit: the URL the handler itself revoked.
Commit(explicit) ==
  /\ audio' = IF ~transcriptionResult'.present THEN NoAudio
              ELSE IF audio.mounted THEN audio ELSE FreshAudio
  /\ pending' = IF transcriptionResult'.present /\ audio.mounted THEN pending ELSE {}
  /\ Rerender(FALSE)
  /\ revoked' =
       [u \in DOMAIN revoked |->
          revoked[u]
          + (IF u = explicit THEN 1 ELSE 0)
          + (IF u = transcriptionResult.audioUrl
                /\ u # transcriptionResult'.audioUrl THEN 1 ELSE 0)]
  /\ UNCHANGED <<request, response, recorderVars>>

\* the AudioUpload drop zone is rendered (alone, or nested in AudioInput)
UploadShown ==
  \/ host = "upload"
  \/ host = "input" /\ mode = "upload" /\ ~isTranscribing /\ ~transcriptionResult.present

\* requests of a nested AudioUpload instance that has been unmounted
Orphaned(reqs) == {[r EXCEPT !.alive = FALSE] : r \in reqs}

Init ==
  /\ host \in {"upload", "input"}
  /\ mounted = TRUE
  /\ mode = "upload"
  /\ isTranscribing = FALSE
  /\ error = NoError
  /\ selectedFile = NoUrl
  /\ isUploading = FALSE
  /\ transcriptionResult = NoResult
  /\ currentWordIndex = NoWord
  /\ isPlaying = FALSE
  /\ audio = NoAudio
  /\ pending = {}
  /\ inflight = {}
  /\ nextUrl = 1
  /\ revoked = [u \in 1..MaxUrls |-> 0]
  /\ dom = NoDom
  /\ lastOp = "init"
  /\ effects = NoEffects
  /\ failed = {}
  /\ request = NoRequest
  /\ response = NoResponse
  /\ RecorderInit

\* ------------------------------------------------------------ AudioUpload
\* handleDrop / handleInputChange hand an audio file to handleFileSelect, which
\* runs transcribeAudio up to its fetch
handleFileSelect ==
  /\ mounted /\ UploadShown
  /\ nextUrl <= MaxUrls
  /\ selectedFile' = nextUrl
  /\ transcriptionResult' = NoResult
  /\ isUploading' = TRUE
  /\ inflight' = inflight \cup {[url |-> nextUrl, kind |-> "upload", alive |-> TRUE]}
  /\ nextUrl' = nextUrl + 1
  /\ UNCHANGED <<host, mounted, mode, isTranscribing, error, currentWordIndex, isPlaying>>
  /\ UNCHANGED failed
  /\ Commit(NoUrl)
  /\ lastOp' = "handleFileSelect"
  /\ effects' = NoEffects

\* transcribeAudio after an OK response: setTranscriptionResult(enhancedResult),
\* onTranscriptionComplete?.(enhancedResult), finally setIsUploading(false).
\* Nested in AudioInput the callback is handleUploadTranscriptionComplete, which
\* sets AudioInput's result (unmounting the drop zone) and clears Home's error.
transcribeAudioOk(r, resp) ==
  /\ r \in inflight /\ r.kind = "upload"
  /\ IF ~mounted
     THEN /\ inflight' = inflight \ {r}
          /\ UNCHANGED <<selectedFile, isUploading, transcriptionResult, error>>
     ELSE /\ transcriptionResult' = [resp EXCEPT !.audioUrl = r.url]
          /\ IF host = "upload"
             THEN /\ isUploading' = FALSE
                  /\ inflight' = inflight \ {r}
                  /\ UNCHANGED <<selectedFile, error>>
             ELSE /\ error' = NoError
                  /\ selectedFile' = NoUrl
                  /\ isUploading' = FALSE
                  /\ inflight' = Orphaned(inflight \ {r})
  /\ UNCHANGED <<host, mounted, mode, isTranscribing, currentWordIndex, isPlaying, nextUrl>>
  /\ UNCHANGED failed
  /\ Commit(NoUrl)
  /\ lastOp' = "transcribeAudio"
  /\ effects' = NoEffects

\* transcribeAudio after a failed response: onTranscriptionError?.(errorMessage),
\* finally setIsUploading(false); the object URL it created is left alone
transcribeAudioFail(r, msg) ==
  /\ r \in inflight /\ r.kind = "upload"
  /\ inflight' = inflight \ {r}
  /\ isUploading' = IF mounted /\ r.alive THEN FALSE ELSE isUploading
  /\ error' = IF mounted /\ host = "input" THEN msg ELSE error
  /\ UNCHANGED <<host, mounted, mode, isTranscribing, selectedFile, transcriptionResult,
                 currentWordIndex, isPlaying, nextUrl>>
  /\ failed' = failed \cup {r.url}
  /\ Commit(NoUrl)
  /\ lastOp' = "transcribeAudioFail"
  /\ effects' = NoEffects

\* mutant: the remove button leaves the tracker as it is
handleRemove_KeepsTracker ==
  /\ mounted /\ UploadShown
  /\ selectedFile # NoUrl
  /\ selectedFile' = NoUrl
  /\ IF host = "upload"
     THEN /\ transcriptionResult' = NoResult
          /\ UNCHANGED <<currentWordIndex, isPlaying>>
     ELSE UNCHANGED <<transcriptionResult, currentWordIndex, isPlaying>>
  /\ UNCHANGED <<host, mounted, mode, isTranscribing, error, isUploading, inflight, nextUrl>>
  /\ UNCHANGED failed
  /\ Commit(IF host = "upload" THEN transcriptionResult.audioUrl ELSE NoUrl)
  /\ lastOp' = "handleRemove"
  /\ effects' = NoEffects

\* the remove button of the drop zone (rendered while a file is selected)
handleRemove ==
  /\ mounted /\ UploadShown
  /\ selectedFile # NoUrl
  /\ selectedFile' = NoUrl
  /\ IF host = "upload"
     THEN /\ transcriptionResult' = NoResult
          /\ currentWordIndex' = NoWord
          /\ isPlaying' = FALSE
     ELSE UNCHANGED <<transcriptionResult, currentWordIndex, isPlaying>>
  /\ UNCHANGED <<host, mounted, mode, isTranscribing, error, isUploading, inflight, nextUrl>>
  /\ UNCHANGED failed
  /\ Commit(IF host = "upload" THEN transcriptionResult.audioUrl ELSE NoUrl)
  /\ lastOp' = "handleRemove"
  /\ effects' = NoEffects

\* ------------------------------------------------------------- AudioInput
\* the button of the other mode (the button of the current mode sets the value
\* mode already has); leaving "upload" unmounts the nested drop zone
setMode(m) ==
  /\ mounted /\ host = "input"
  /\ m # mode
  /\ mode' = m
  /\ IF UploadShown
     THEN /\ selectedFile' = NoUrl
          /\ isUploading' = FALSE
          /\ inflight' = Orphaned(inflight)
     ELSE UNCHANGED <<selectedFile, isUploading, inflight>>
  /\ UNCHANGED <<host, mounted, isTranscribing, error, transcriptionResult,
                 currentWordIndex, isPlaying, nextUrl>>
  /\ UNCHANGED failed
  /\ Commit(NoUrl)
  /\ lastOp' = "setMode"
  /\ effects' = NoEffects

\* the nested AudioRecorder hands over a recording: handleRecordingComplete up
\* to its fetch
handleRecordingComplete ==
  /\ mounted /\ host = "input"
  /\ mode = "record" /\ ~isTranscribing /\ ~transcriptionResult.present
  /\ nextUrl <= MaxUrls
  /\ isTranscribing' = TRUE
  /\ inflight' = inflight \cup {[url |-> nextUrl, kind |-> "record", alive |-> TRUE]}
  /\ nextUrl' = nextUrl + 1
  /\ UNCHANGED <<host, mounted, mode, error, selectedFile, isUploading,
                 transcriptionResult, currentWordIndex, isPlaying>>
  /\ UNCHANGED failed
  /\ Commit(NoUrl)
  /\ lastOp' = "handleRecordingComplete"
  /\ effects' = NoEffects

\* handleRecordingComplete after an OK response
\* mutant: a finished recording attempt leaves the page's error as it was
handleRecordingCompleteOk_KeepsBanner(r, resp) ==
  /\ r \in inflight /\ r.kind = "record"
  /\ inflight' = inflight \ {r}
  /\ IF mounted
     THEN /\ transcriptionResult' = [resp EXCEPT !.audioUrl = r.url]
          /\ isTranscribing' = FALSE
          /\ UNCHANGED error
     ELSE UNCHANGED <<transcriptionResult, error, isTranscribing>>
  /\ UNCHANGED <<host, mounted, mode, selectedFile, isUploading,
                 currentWordIndex, isPlaying, nextUrl>>
  /\ UNCHANGED failed
  /\ Commit(NoUrl)
  /\ lastOp' = "handleRecordingCompleteOk"
  /\ effects' = NoEffects

handleRecordingCompleteOk(r, resp) ==
  /\ r \in inflight /\ r.kind = "record"
  /\ inflight' = inflight \ {r}
  /\ IF mounted
     THEN /\ transcriptionResult' = [resp EXCEPT !.audioUrl = r.url]
          /\ error' = NoError
          /\ isTranscribing' = FALSE
     ELSE UNCHANGED <<transcriptionResult, error, isTranscribing>>
  /\ UNCHANGED <<host, mounted, mode, selectedFile, isUploading,
                 currentWordIndex, isPlaying, nextUrl>>
  /\ UNCHANGED failed
  /\ Commit(NoUrl)
  /\ lastOp' = "handleRecordingCompleteOk"
  /\ effects' = NoEffects

\* handleRecordingComplete after a failed response
handleRecordingCompleteFail(r, msg) ==
  /\ r \in inflight /\ r.kind = "record"
  /\ inflight' = inflight \ {r}
  /\ IF mounted
     THEN /\ error' = msg
          /\ isTranscribing' = FALSE
     ELSE UNCHANGED <<error, isTranscribing>>
  /\ UNCHANGED <<host, mounted, mode, selectedFile, isUploading, transcriptionResult,
                 currentWordIndex, isPlaying, nextUrl>>
  /\ failed' = failed \cup {r.url}
  /\ Commit(NoUrl)
  /\ lastOp' = "handleRecordingCompleteFail"
  /\ effects' = NoEffects

\* the nested AudioRecorder reports an error: onRecordingError is AudioInput's
\* onTranscriptionError, Home's setError
onRecordingError(msg) ==
  /\ mounted /\ host = "input"
  /\ mode = "record" /\ ~isTranscribing /\ ~transcriptionResult.present
  /\ error' = msg
  /\ UNCHANGED <<host, mounted, mode, isTranscribing, selectedFile, isUploading,
                 transcriptionResult, currentWordIndex, isPlaying, inflight, nextUrl>>
  /\ UNCHANGED failed
  /\ Commit(NoUrl)
  /\ lastOp' = "onRecordingError"
  /\ effects' = NoEffects

\* the "New Upload" / "New Recording" button under a displayed result
handleNewRecording ==
  /\ mounted /\ host = "input"
  /\ transcriptionResult.present
  /\ transcriptionResult' = NoResult
  /\ currentWordIndex' = NoWord
  /\ isPlaying' = FALSE
  /\ UNCHANGED <<host, mounted, mode, isTranscribing, error, selectedFile, isUploading,
                 inflight, nextUrl>>
  /\ UNCHANGED failed
  /\ Commit(transcriptionResult.audioUrl)
  /\ lastOp' = "handleNewRecording"
  /\ effects' = NoEffects

\* the hosting view is torn down: state is dropped and the effect cleanup runs
Teardown ==
  /\ mounted
  /\ mounted' = FALSE
  /\ transcriptionResult' = NoResult
  /\ currentWordIndex' = NoWord
  /\ isPlaying' = FALSE
  /\ selectedFile' = NoUrl
  /\ isUploading' = FALSE
  /\ isTranscribing' = FALSE
  /\ error' = NoError
  /\ inflight' = Orphaned(inflight)
  /\ UNCHANGED <<host, mode, nextUrl>>
  /\ UNCHANGED failed
  /\ Commit(NoUrl)
  /\ lastOp' = "teardown"
  /\ effects' = NoEffects

\* ------------------------------------------------- tracker event handlers
\* what the handlers of both components leave alone
TrackerFrame ==
  UNCHANGED <<host, mounted, mode, isTranscribing, error, selectedFile, isUploading,
              transcriptionResult, inflight, nextUrl, revoked, failed, request, response,
              recorderVars>>

\* document.querySelector(`[data-word="${wordIndex}"]`) finds a word span
WordElement(wordIndex) == dom.kind = "words" /\ wordIndex >= 0 /\ wordIndex < dom.count

\* mutant: the clock is only followed while isPlaying
handleTimeUpdate_OnlyWhilePlaying ==
  /\ mounted /\ audio.mounted
  /\ IF transcriptionResult.present /\ transcriptionResult.hasWords /\ isPlaying
     THEN LET currentWord == findCurrentWord(transcriptionResult, audio.currentTime)
          IN /\ currentWordIndex' = currentWord
             /\ effects' = [NoEffects EXCEPT
                              !.scroll = IF currentWord # NoWord /\ WordElement(currentWord)
                                         THEN currentWord ELSE NoWord]
     ELSE /\ effects' = NoEffects
          /\ UNCHANGED currentWordIndex
  /\ UNCHANGED <<isPlaying, audio, pending>>
  /\ TrackerFrame
  /\ Rerender(currentWordIndex' # NoWord /\ transcriptionResult.hasWords /\ isPlaying)
  /\ lastOp' = "handleTimeUpdate"

\* onTimeUpdate of the <audio> element
handleTimeUpdate ==
  /\ mounted /\ audio.mounted
  /\ IF transcriptionResult.present /\ transcriptionResult.hasWords
     THEN LET currentWord == findCurrentWord(transcriptionResult, audio.currentTime)
          IN /\ currentWordIndex' = currentWord
             /\ effects' = [NoEffects EXCEPT
                              !.scroll = IF currentWord # NoWord /\ WordElement(currentWord)
                                         THEN currentWord ELSE NoWord]
     ELSE /\ effects' = NoEffects
          /\ UNCHANGED currentWordIndex
  /\ UNCHANGED <<isPlaying, audio, pending>>
  /\ TrackerFrame
  /\ Rerender(currentWordIndex' # NoWord /\ transcriptionResult.hasWords)
  /\ lastOp' = "handleTimeUpdate"

\* onPlay
handlePlay ==
  /\ mounted /\ audio.mounted
  /\ "play" \in pending
  /\ pending' = pending \ {"play"}
  /\ isPlaying' = TRUE
  /\ UNCHANGED <<currentWordIndex, audio>>
  /\ TrackerFrame
  /\ Rerender(FALSE)
  /\ lastOp' = "handlePlay"
  /\ effects' = NoEffects

\* mutant: onPause also forgets the current word
handlePause_ClearsIndex ==
  /\ mounted /\ audio.mounted
  /\ "pause" \in pending
  /\ pending' = pending \ {"pause"}
  /\ isPlaying' = FALSE
  /\ currentWordIndex' = NoWord
  /\ UNCHANGED audio
  /\ TrackerFrame
  /\ Rerender(FALSE)
  /\ lastOp' = "handlePause"
  /\ effects' = NoEffects

\* onPause
handlePause ==
  /\ mounted /\ audio.mounted
  /\ "pause" \in pending
  /\ pending' = pending \ {"pause"}
  /\ isPlaying' = FALSE
  /\ UNCHANGED <<currentWordIndex, audio>>
  /\ TrackerFrame
  /\ Rerender(FALSE)
  /\ lastOp' = "handlePause"
  /\ effects' = NoEffects

\* mutant: onEnded forgets setCurrentWordIndex(null)
handleEnded_KeepsIndex ==
  /\ mounted /\ audio.mounted
  /\ "ended" \in pending
  /\ pending' = pending \ {"ended"}
  /\ isPlaying' = FALSE
  /\ UNCHANGED <<currentWordIndex, audio>>
  /\ TrackerFrame
  /\ Rerender(FALSE)
  /\ lastOp' = "handleEnded"
  /\ effects' = NoEffects

\* onEnded
handleEnded ==
  /\ mounted /\ audio.mounted
  /\ "ended" \in pending
  /\ pending' = pending \ {"ended"}
  /\ isPlaying' = FALSE
  /\ currentWordIndex' = NoWord
  /\ UNCHANGED audio
  /\ TrackerFrame
  /\ Rerender(FALSE)
  /\ lastOp' = "handleEnded"
  /\ effects' = NoEffects

\* HTMLMediaElement.play(): playback that had ended restarts from the beginning
PlayCmd(a) ==
  [a EXCEPT !.paused = FALSE,
            !.currentTime = IF a.currentTime >= Duration THEN 0 ELSE a.currentTime]

\* mutant: the segment spans are rendered after the word spans
ClickableUnits_WordsThenSegments ==
  IF dom.kind = "words" THEN transcriptionResult.words \o transcriptionResult.segments
  ELSE IF dom.kind = "segments" THEN transcriptionResult.segments
  ELSE <<>>

\* the units that carry an onClick: one span per element of words, else of segments
ClickableUnits ==
  IF dom.kind = "words" THEN transcriptionResult.words
  ELSE IF dom.kind = "segments" THEN transcriptionResult.segments
  ELSE <<>>

\* mutant: the click also makes the clicked unit current
onClick_MovesIndex(unitIndex) ==
  /\ mounted /\ transcriptionResult.present
  /\ pending = {}
  /\ IF unitIndex < Len(ClickableUnits) /\ audio.mounted
     THEN LET unit == ClickableUnits[unitIndex + 1]
          IN /\ audio' = PlayCmd([audio EXCEPT !.currentTime = unit.start])
             /\ pending' = IF audio.paused THEN pending \cup {"play"} ELSE pending
             /\ effects' = [NoEffects EXCEPT !.seek = unit.start, !.play = TRUE,
                                             !.target = unitIndex]
             /\ currentWordIndex' = unitIndex
     ELSE /\ effects' = [NoEffects EXCEPT !.target = unitIndex]
          /\ UNCHANGED <<audio, pending, currentWordIndex>>
  /\ UNCHANGED isPlaying
  /\ TrackerFrame
  /\ Rerender(unitIndex < Len(ClickableUnits) /\ audio.mounted)
  /\ lastOp' = "onClick"

\* a click aimed at the unit with index unitIndex: the span's onClick when such a
\* span is rendered, nothing otherwise
onClick(unitIndex) ==
  /\ mounted /\ transcriptionResult.present
  /\ pending = {}
  /\ IF unitIndex < Len(ClickableUnits) /\ audio.mounted
     THEN LET unit == ClickableUnits[unitIndex + 1]
          IN /\ audio' = PlayCmd([audio EXCEPT !.currentTime = unit.start])
             /\ pending' = IF audio.paused THEN pending \cup {"play"} ELSE pending
             /\ effects' = [NoEffects EXCEPT !.seek = unit.start, !.play = TRUE,
                                             !.target = unitIndex]
     ELSE /\ effects' = [NoEffects EXCEPT !.target = unitIndex]
          /\ UNCHANGED <<audio, pending>>
  /\ UNCHANGED <<currentWordIndex, isPlaying, dom>>
  /\ TrackerFrame
  /\ lastOp' = "onClick"

\* ---------------------------------------------- the playback surface itself
EnvFrame ==
  /\ UNCHANGED <<currentWordIndex, isPlaying, dom>>
  /\ TrackerFrame
  /\ lastOp' = "env"
  /\ effects' = NoEffects

\* the play button of the native controls
ControlsPlay ==
  /\ audio.mounted /\ audio.paused
  /\ pending = {}
  /\ audio' = PlayCmd(audio)
  /\ pending' = pending \cup {"play"}
  /\ EnvFrame

\* the pause button of the native controls
ControlsPause ==
  /\ audio.mounted /\ ~audio.paused
  /\ pending = {}
  /\ audio' = [audio EXCEPT !.paused = TRUE]
  /\ pending' = pending \cup {"pause"}
  /\ EnvFrame

\* the scrubber of the native controls
ControlsSeek(t) ==
  /\ audio.mounted
  /\ pending = {}
  /\ t # audio.currentTime
  /\ audio' = [audio EXCEPT !.currentTime = t]
  /\ UNCHANGED pending
  /\ EnvFrame

\* playback advances to the next instant; reaching the end pauses the element
\* and fires pause, ended
Advance ==
  /\ audio.mounted /\ ~audio.paused
  /\ pending = {}
  /\ audio.currentTime < Duration
  /\ LET t == CHOOSE u \in Times : /\ u > audio.currentTime
                                   /\ \A v \in Times : v > audio.currentTime => u <= v
     IN IF t >= Duration
        THEN /\ audio' = [audio EXCEPT !.currentTime = Duration, !.paused = TRUE]
             /\ pending' = pending \cup {"pause", "ended"}
        ELSE /\ audio' = [audio EXCEPT !.currentTime = t]
             /\ UNCHANGED pending
  /\ EnvFrame

Next ==
  \/ handleFileSelect
  \/ \E r \in inflight, resp \in Responses : transcribeAudioOk(r, resp)
  \/ \E r \in inflight, msg \in ErrorStrings : transcribeAudioFail(r, msg)
  \/ handleRemove
  \/ \E m \in {"upload", "record"} : setMode(m)
  \/ handleRecordingComplete
  \/ \E r \in inflight, resp \in Responses : handleRecordingCompleteOk(r, resp)
  \/ \E r \in inflight, msg \in ErrorStrings : handleRecordingCompleteFail(r, msg)
  \/ \E msg \in RecorderErrorStrings : onRecordingError(msg)
  \/ handleNewRecording
  \/ Teardown
  \/ handleTimeUpdate
  \/ handlePlay
  \/ handlePause
  \/ handleEnded
  \/ \E i \in ClickTargets : onClick(i)
  \/ ControlsPlay
  \/ ControlsPause
  \/ \E t \in Times : ControlsSeek(t)
  \/ Advance

Spec == Init /\ [][Next]_vars

\* --------------------------------------- locate() over drawn word sequences
\* clock readings of the locate specification: on, between and after boundaries
ClockReadings == Times \cup Boundaries

\* AudioUpload right after transcribeAudio displayed a response that carries the
\* word sequence w
Loaded(w) ==
  /\ host = "upload"
  /\ mounted = TRUE
  /\ mode = "upload"
  /\ isTranscribing = FALSE
  /\ error = NoError
  /\ selectedFile = 1
  /\ isUploading = FALSE
  /\ transcriptionResult = [MkResult(TRUE, w, FALSE, <<>>) EXCEPT !.audioUrl = 1]
  /\ currentWordIndex = NoWord
  /\ isPlaying = FALSE
  /\ audio = FreshAudio
  /\ pending = {}
  /\ inflight = {}
  /\ nextUrl = 2
  /\ revoked = [u \in 1..MaxUrls |-> 0]
  /\ dom = RenderTranscript(transcriptionResult, NoWord, FALSE, 0)
  /\ lastOp = "transcribeAudio"
  /\ effects = NoEffects
  /\ failed = {}
  /\ request = NoRequest
  /\ response = NoResponse
  /\ RecorderInit

InitLocate == \E w \in SeqsUpTo(Units, MaxLen) : Loaded(w)

NextLocate ==
  \/ \E t \in ClockReadings : ControlsSeek(t)
  \/ handleTimeUpdate

SpecLocate == InitLocate /\ [][NextLocate]_vars

\* ------------------------------------------- the gateway, one request each
\* the components idle while a request drawn from Requests reaches the route
InitGateway ==
  /\ host \in {"upload", "input"}
  /\ mounted = TRUE
  /\ mode = "upload"
  /\ isTranscribing = FALSE
  /\ error = NoError
  /\ selectedFile = NoUrl
  /\ isUploading = FALSE
  /\ transcriptionResult = NoResult
  /\ currentWordIndex = NoWord
  /\ isPlaying = FALSE
  /\ audio = NoAudio
  /\ pending = {}
  /\ inflight = {}
  /\ nextUrl = 1
  /\ revoked = [u \in 1..MaxUrls |-> 0]
  /\ dom = NoDom
  /\ lastOp = "init"
  /\ effects = NoEffects
  /\ failed = {}
  /\ request \in Requests
  /\ response = NoResponse
  /\ RecorderInit

\* export async function POST(request)
POST ==
  /\ response = NoResponse
  /\ response' = PostResponse(request)
  /\ lastOp' = "POST"
  /\ UNCHANGED <<host, mounted, mode, isTranscribing, error, selectedFile, isUploading,
                 transcriptionResult, currentWordIndex, isPlaying, audio, pending,
                 inflight, nextUrl, revoked, dom, effects, failed, request,
                 recorderVars>>

NextGateway == POST

SpecGateway == InitGateway /\ [][NextGateway]_vars

\* ------------------------------- the components behind the route of this app
\* `const result: TranscriptionResult = await response.json()` of a body the
\* route answered with
FromGateway(resp) ==
  MkResult("words" \in resp.keys, resp.words, "segments" \in resp.keys, resp.segments)

\* results and error strings the route can answer a request with
GatewayResults ==
  {FromGateway(PostResponse(q)) : q \in {x \in Requests : PostResponse(x).status = 200}}
GatewayErrors ==
  {PostResponse(q).error : q \in {x \in Requests : PostResponse(x).status # 200}}

NextEndToEnd ==
  \/ handleFileSelect
  \/ \E r \in inflight, resp \in GatewayResults : transcribeAudioOk(r, resp)
  \/ \E r \in inflight, msg \in GatewayErrors : transcribeAudioFail(r, msg)
  \/ handleRemove
  \/ \E m \in {"upload", "record"} : setMode(m)
  \/ handleRecordingComplete
  \/ \E r \in inflight, resp \in GatewayResults : handleRecordingCompleteOk(r, resp)
  \/ \E r \in inflight, msg \in GatewayErrors : handleRecordingCompleteFail(r, msg)
  \/ \E msg \in RecorderErrorStrings : onRecordingError(msg)
  \/ handleNewRecording
  \/ Teardown
  \/ handleTimeUpdate
  \/ handlePlay
  \/ handlePause
  \/ handleEnded
  \/ \E i \in ClickTargets : onClick(i)
  \/ ControlsPlay
  \/ ControlsPause
  \/ \E t \in Times : ControlsSeek(t)
  \/ Advance

SpecEndToEnd == Init /\ [][NextEndToEnd]_vars

\* ------------------------------------------------------------------ claims
\* indices of the units of words whose closed interval holds t
Matching(words, t) ==
  {i \in 0..(Len(words) - 1) : words[i + 1].start <= t /\ t <= words[i + 1].end}

\* C1: for every transcript and every clock value, locate returns the smallest
\* index whose closed interval [start, end] holds the clock, and null exactly when
\* no interval holds it.
C1_LocateFirstMatch ==
  \A t \in ClockReadings :
    LET r == findCurrentWord(transcriptionResult, t)
        M == Matching(transcriptionResult.words, t)
    IN /\ (r = NoWord) <=> (M = {})
       /\ M # {} => (r \in M /\ \A j \in M : r <= j)

\* C1 witness: a clock update found the clock on the closing bound of the only
\* unit, of two, that holds it, and made that unit current.
C1_Witness ==
  /\ lastOp = "handleTimeUpdate"
  /\ Len(transcriptionResult.words) = 2
  /\ Matching(transcriptionResult.words, audio.currentTime) = {1}
  /\ transcriptionResult.words[2].end = audio.currentTime
  /\ currentWordIndex = 1

\* C2: when several units hold the same clock value, locate returns the lowest
\* of their indices, never a later one.
C2_LowestOfOverlapping ==
  \A t \in ClockReadings :
    LET M == Matching(transcriptionResult.words, t)
    IN Cardinality(M) >= 2 =>
         \A j \in M : findCurrentWord(transcriptionResult, t) <= j

\* C2 witness: the clock stands where unit 0 ends and unit 1 starts, and the
\* clock update made unit 0 current.
C2_Witness ==
  /\ lastOp = "handleTimeUpdate"
  /\ Len(transcriptionResult.words) = 2
  /\ transcriptionResult.words[1].end = audio.currentTime
  /\ transcriptionResult.words[2].start = audio.currentTime
  /\ transcriptionResult.words[1].start < audio.currentTime
  /\ currentWordIndex = 0

\* t lies between two consecutive units, before the first or after the last
InGap(words, t) ==
  /\ Len(words) > 0
  /\ \/ t < words[1].start
     \/ t > words[Len(words)].end
     \/ \E i \in 1..(Len(words) - 1) : words[i].end < t /\ t < words[i + 1].start

\* units are well formed and in order: start <= end <= start of the next
Ordered(words) ==
  /\ \A i \in 1..Len(words) : words[i].start <= words[i].end
  /\ \A i \in 1..(Len(words) - 1) : words[i].end <= words[i + 1].start

\* C3 as stated: after a clock update with the clock in a gap between consecutive
\* units, before the first or after the last, no unit is current.
C3_Original ==
  (lastOp = "handleTimeUpdate" /\ InGap(transcriptionResult.words, audio.currentTime))
    => currentWordIndex = NoWord

\* C3 amended: in a transcript whose units are in order and do not overlap, locate
\* returns null for every clock in a gap between consecutive units, before the
\* first or after the last; for units (0,1),(1.5,2.5): 0.5 -> 0, 1.2 -> null,
\* 2.0 -> 1, 3.0 -> null.
C3_GapIsNull ==
  /\ \A t \in ClockReadings :
       (Ordered(transcriptionResult.words) /\ InGap(transcriptionResult.words, t))
         => findCurrentWord(transcriptionResult, t) = NoWord
  /\ transcriptionResult.words = WordsGap =>
       /\ findCurrentWord(transcriptionResult, 5) = 0
       /\ findCurrentWord(transcriptionResult, 12) = NoWord
       /\ findCurrentWord(transcriptionResult, 20) = 1
       /\ findCurrentWord(transcriptionResult, 30) = NoWord

\* C3 witness: units (0,1),(1.5,2.5), the clock at 1.2 s, and the clock update
\* left no unit current.
C3_Witness ==
  /\ lastOp = "handleTimeUpdate"
  /\ transcriptionResult.words = WordsGap
  /\ audio.currentTime = 12
  /\ currentWordIndex = NoWord

\* the unit sequence the displayed result is tracked by: words, else segments
ActiveUnits(result) ==
  IF result.hasWords THEN result.words
  ELSE IF result.hasSegments THEN result.segments
  ELSE <<>>

\* the first index of Matching, or NoWord
FirstMatch(words, t) ==
  IF Matching(words, t) = {} THEN NoWord
  ELSE CHOOSE i \in Matching(words, t) : \A j \in Matching(words, t) : i <= j

\* C4: right after a new transcript result is displayed (and before any clock
\* update for it) the tracker is at currentWordIndex = null and isPlaying = false,
\* and no unit of the new transcript is shown emphasised.
C4_LoadResetsTracker ==
  (lastOp \in {"transcribeAudio", "handleRecordingCompleteOk"} /\ transcriptionResult.present)
    => (currentWordIndex = NoWord /\ ~isPlaying /\ dom.emphasised = {})

\* C5: after onEnded the tracker is at currentWordIndex = null and
\* isPlaying = false, whatever it was before.
C5_EndedResets ==
  lastOp = "handleEnded" => (currentWordIndex = NoWord /\ ~isPlaying)

\* C5 witness: playback ended with the clock inside the last word, and onEnded
\* left no word current and nothing emphasised.
C5_Witness ==
  /\ lastOp = "handleEnded"
  /\ transcriptionResult.hasWords
  /\ Matching(transcriptionResult.words, audio.currentTime) # {}
  /\ currentWordIndex = NoWord
  /\ ~isPlaying
  /\ dom.emphasised = {}

\* C6: for a result that carries words, after every clock update
\* currentWordIndex is the first word whose interval holds the clock (null when
\* none does), whatever the index and isPlaying were.
C6_TimeUpdateLocates ==
  (lastOp = "handleTimeUpdate" /\ transcriptionResult.hasWords)
    => currentWordIndex = FirstMatch(transcriptionResult.words, audio.currentTime)

\* C6 witness: a clock update while paused made the second word current.
C6_Witness ==
  /\ lastOp = "handleTimeUpdate"
  /\ transcriptionResult.hasWords
  /\ ~isPlaying
  /\ audio.currentTime > 0
  /\ currentWordIndex = 1

\* C7: a clock update scrolls to unit i exactly when locate(clock) = i; when
\* locate(clock) = null it scrolls nowhere and currentWordIndex is null.
C7_ScrollFollowsLocate ==
  lastOp = "handleTimeUpdate" =>
    LET i == IF transcriptionResult.hasWords
             THEN FirstMatch(transcriptionResult.words, audio.currentTime)
             ELSE NoWord
    IN /\ effects.scroll = i
       /\ i = NoWord => currentWordIndex = NoWord

C9_SeekToValid ==
  [][(lastOp' = "onClick" /\ effects'.target < Len(ActiveUnits(transcriptionResult)))
       => /\ effects'.seek = ActiveUnits(transcriptionResult)[effects'.target + 1].start
          /\ effects'.play
          /\ audio'.currentTime = effects'.seek
          /\ ~audio'.paused
          /\ currentWordIndex' = currentWordIndex
          /\ isPlaying' = isPlaying]_vars

\* C9 witness: a click on the second word while nothing was playing: the clock
\* is at its start, the element plays, the tracker has not moved yet.
C9_Witness ==
  /\ lastOp = "onClick"
  /\ effects.target = 1
  /\ effects.seek = WordsGap[2].start
  /\ effects.play
  /\ audio.currentTime = WordsGap[2].start
  /\ ~audio.paused
  /\ "play" \in pending
  /\ currentWordIndex = NoWord
  /\ ~isPlaying

BothGranularities ==
  transcriptionResult.present /\ transcriptionResult.hasWords
    /\ transcriptionResult.hasSegments

\* C11: when the result carries words and segments, the view shows one span per
\* word, the emphasised unit is the current word while playing, a clock update
\* makes the first matching word current, and a click seeks to the start of the
\* clicked word; the segments take no part.
C11_WordsTakePrecedence ==
  BothGranularities =>
    /\ dom.kind = "words"
    /\ dom.count = Len(transcriptionResult.words)
    /\ dom.emphasised = {i \in 0..(Len(transcriptionResult.words) - 1) :
                           isPlaying /\ currentWordIndex = i}
    /\ lastOp = "handleTimeUpdate" =>
         currentWordIndex = FirstMatch(transcriptionResult.words, audio.currentTime)
    /\ (lastOp = "onClick" /\ effects.seek # NoSeek) =>
         /\ effects.target < Len(transcriptionResult.words)
         /\ effects.seek = transcriptionResult.words[effects.target + 1].start

\* C11 witness: words and segments, playing with the clock at the end: the third
\* word is current and emphasised, where the segments would point at the second
\* unit.
C11_Witness ==
  /\ BothGranularities
  /\ lastOp = "handleTimeUpdate"
  /\ isPlaying
  /\ audio.currentTime = Duration
  /\ currentWordIndex = 2
  /\ dom.emphasised = {2}
  /\ Len(transcriptionResult.segments) = 2

\* C12: the object URL of a displayed result is revoked exactly once: when the
\* result is cleared, replaced or torn down its URL has then been revoked once,
\* and no URL is ever revoked a second time.
C12_ReleasedExactlyOnce ==
  /\ [](\A u \in DOMAIN revoked : revoked[u] <= 1)
  /\ [][(transcriptionResult.audioUrl # NoUrl
          /\ transcriptionResult'.audioUrl # transcriptionResult.audioUrl)
         => revoked'[transcriptionResult.audioUrl] = 1]_vars

\* nothing is left to run: the view is torn down and no request is in flight
Quiescent == ~mounted /\ inflight = {}

\* C13: an object URL created by a transcription attempt that failed does not stay
\* allocated: once the view is torn down and no request is in flight it has been
\* revoked.
C13_FailedAttemptReleased ==
  Quiescent => \A u \in failed : revoked[u] >= 1

\* C14: right after the user cleared the result (handleRemove, handleNewRecording)
\* no result is displayed, currentWordIndex is null and isPlaying is false.
C14_ClearDiscardsTracker ==
  lastOp \in {"handleRemove", "handleNewRecording"} =>
    /\ ~transcriptionResult.present
    /\ currentWordIndex = NoWord
    /\ ~isPlaying
    /\ dom = NoDom

\* C14 witness: the remove button was used on the displayed transcript of the only
\* file selected so far (the handler and the effect cleanup both revoked its URL)
\* and left nothing displayed, no current word, not playing.
C14_Witness ==
  /\ lastOp = "handleRemove"
  /\ host = "upload"
  /\ nextUrl = 2
  /\ revoked[1] = 2
  /\ ~transcriptionResult.present
  /\ audio = NoAudio
  /\ currentWordIndex = NoWord
  /\ ~isPlaying

\* the displayed result has no units: words absent or of length zero, no segments
EmptyTranscript ==
  /\ transcriptionResult.present
  /\ ~transcriptionResult.hasSegments
  /\ (~transcriptionResult.hasWords \/ Len(transcriptionResult.words) = 0)

\* C15: for a transcript without units locate returns null for every clock value,
\* a null currentWordIndex stays null under every event, and the view shows the
\* plain text with no clickable unit.
C15_EmptyIsInert ==
  /\ [](EmptyTranscript =>
          /\ \A t \in ClockReadings : findCurrentWord(transcriptionResult, t) = NoWord
          /\ dom.kind = "text"
          /\ Len(ClickableUnits) = 0)
  /\ [][(EmptyTranscript /\ transcriptionResult' = transcriptionResult
           /\ currentWordIndex = NoWord)
         => currentWordIndex' = NoWord]_vars

\* C16: onPlay leaves isPlaying true and onPause leaves it false, whatever it was,
\* and neither changes currentWordIndex or the transcript result.
C16_PlayPauseToggle ==
  [][/\ lastOp' = "handlePlay" => isPlaying'
     /\ lastOp' = "handlePause" => ~isPlaying'
     /\ lastOp' \in {"handlePlay", "handlePause"} =>
          UNCHANGED <<currentWordIndex, transcriptionResult>>]_vars

\* C16 witness: paused with the clock inside the second word: that word is still
\* current.
C16_Witness ==
  /\ lastOp = "handlePause"
  /\ ~isPlaying
  /\ transcriptionResult.hasWords
  /\ currentWordIndex = 1
  /\ currentWordIndex \in Matching(transcriptionResult.words, audio.currentTime)

\* the type begins with the six characters of "audio/"
IsAudioType(type) ==
  /\ Len(type) >= 6
  /\ type[1] = "a" /\ type[2] = "u" /\ type[3] = "d"
  /\ type[4] = "i" /\ type[5] = "o" /\ type[6] = "/"

\* C17: POST answers 400 with an error string, without calling the speech-to-text
\* service, for a request without audio file, then for a file whose type does not
\* start with "audio/", then for a file of more than 25*1024*1024 bytes, checked in
\* that order; a file of exactly 25*1024*1024 bytes goes through to the service.
C17_GatewayValidates ==
  lastOp = "POST" =>
    /\ request.audio = "none" =>
         /\ response.status = 400 /\ ~response.called
         /\ response.error = "No audio file provided"
    /\ (request.audio = "file" /\ ~IsAudioType(request.type)) =>
         /\ response.status = 400 /\ ~response.called
         /\ response.error = "Invalid file type. Please upload an audio file."
    /\ (request.audio = "file" /\ IsAudioType(request.type)
          /\ request.size > 25 * 1024 * 1024) =>
         /\ response.status = 400 /\ ~response.called
         /\ response.error = "File too large. Maximum size is 25MB."
    /\ (request.audio = "file" /\ IsAudioType(request.type)
          /\ request.size <= 25 * 1024 * 1024) =>
         /\ response.called
         /\ response.status # 400
         /\ request.vendor.ok => response.status = 200

\* C17 witness: a file that is neither audio nor small enough is turned away for
\* its type, and the service was not called.
C17_Witness ==
  /\ lastOp = "POST"
  /\ request.audio = "file"
  /\ ~IsAudioType(request.type)
  /\ request.size = 25 * 1024 * 1024 + 1
  /\ response.status = 400
  /\ response.error = "Invalid file type. Please upload an audio file."
  /\ ~response.called

\* the displayed result carries segments and no words
SegmentsOnly ==
  transcriptionResult.present /\ ~transcriptionResult.hasWords
    /\ transcriptionResult.hasSegments

\* C18: for a result with segments only, after every clock update while playing
\* the emphasised segments are segments whose interval holds the clock, and one
\* is emphasised when the clock is inside a segment.
C18_SegmentFollowsClock ==
  (lastOp = "handleTimeUpdate" /\ SegmentsOnly /\ isPlaying) =>
    LET M == Matching(transcriptionResult.segments, audio.currentTime)
    IN /\ dom.emphasised \subseteq M
       /\ M # {} => dom.emphasised # {}

\* C19: at most one unit of the displayed transcript is emphasised, for words
\* and for segments, overlapping intervals included.
C19_AtMostOneEmphasised ==
  Cardinality(dom.emphasised) <= 1

\* C20: in AudioUpload, once every transcription request has been answered (none
\* of them with a failure), the displayed transcript and its object URL are those
\* of the file selected last, whatever order the answers came in.
C20_LatestSelectionWins ==
  (host = "upload" /\ mounted /\ inflight = {} /\ failed = {}
     /\ selectedFile # NoUrl /\ transcriptionResult.present)
    => transcriptionResult.audioUrl = selectedFile

\* C21: in AudioUpload, while no file is selected (the user removed it and has not
\* selected another) no transcript result is displayed, even when the answer to a
\* request started before the removal arrives afterwards.
C21_RemovedStaysRemoved ==
  (host = "upload" /\ mounted /\ selectedFile = NoUrl) => ~transcriptionResult.present

\* C23: in AudioInput a recording handed to handleRecordingComplete sets
\* isTranscribing; its answer then runs exactly one of onTranscriptionComplete
\* (the result is displayed, the banner cleared) and onTranscriptionError (the
\* banner carries the error string) and clears isTranscribing; after a failure no
\* transcript result is displayed.
C23_RecordingTranscribed ==
  [][/\ lastOp' = "handleRecordingComplete" => isTranscribing'
     /\ (lastOp' = "handleRecordingCompleteOk" /\ mounted) =>
          /\ transcriptionResult'.present
          /\ error' = NoError
          /\ ~isTranscribing'
     /\ (lastOp' = "handleRecordingCompleteFail" /\ mounted) =>
          /\ error' \in ErrorStrings
          /\ ~isTranscribing'
          /\ ~transcriptionResult'.present]_vars

\* C27: when the forwarded call fails, a message containing "API key" is answered
\* 500 "OpenAI API key not configured", otherwise one containing "quota" is
\* answered 429, every other failure 500 with the retry message; the one response
\* of a request carries either a result or a single error string.
C27_GatewayErrorPriority ==
  lastOp = "POST" =>
    /\ (response.called /\ ~request.vendor.ok) =>
         IF "API key" \in request.vendor.mentions
         THEN response.status = 500 /\ response.error = "OpenAI API key not configured"
         ELSE IF "quota" \in request.vendor.mentions
         THEN /\ response.status = 429
              /\ response.error = "API quota exceeded. Please try again later."
         ELSE /\ response.status = 500
              /\ response.error = "Failed to transcribe audio. Please try again."
    /\ request.audio \in {"unreadable", "text"} =>
         /\ response.status = 500
         /\ response.error = "Failed to transcribe audio. Please try again."
    /\ IF response.status = 200
       THEN response.error = NoError /\ "error" \notin response.keys
       ELSE response.error # NoError /\ response.keys = {"error"}

\* C27 witness: the service failed with a message that mentions the API key and
\* the quota: the answer is the API key one.
C27_Witness ==
  /\ lastOp = "POST"
  /\ response.called
  /\ request.vendor.mentions = {"API key", "quota"}
  /\ response.status = 500
  /\ response.error = "OpenAI API key not configured"

\* every result body of the route has the five keys, the segments of the vendor
\* response, the fixed metadata and no words
ResultBodyShape ==
  \A q \in Requests :
    LET a == PostResponse(q)
    IN a.status = 200 =>
         /\ a.keys = {"text", "duration", "language", "segments", "metadata"}
         /\ a.segments = q.vendor.segments
         /\ a.words = <<>>
         /\ a.metadata.model = "whisper-1"
         /\ a.metadata.medicalContext
         /\ a.metadata.confidence = "high"

\* C28: a successful answer of the route carries exactly text, duration, language,
\* segments (those of the vendor response) and metadata (model "whisper-1",
\* medicalContext true, confidence "high") and no words; behind the route no
\* displayed result has words, no word view is rendered, no scroll is issued and
\* currentWordIndex is null in every state.
C28_GatewayResultHasNoWords ==
  /\ ResultBodyShape
  /\ transcriptionResult.present => ~transcriptionResult.hasWords
  /\ dom.kind # "words"
  /\ effects.scroll = NoWord
  /\ currentWordIndex = NoWord

\* C28 witness: a result of the route with two segments is playing, the clock
\* inside the second one, and the clock update left currentWordIndex null.
C28_Witness ==
  /\ lastOp = "handleTimeUpdate"
  /\ isPlaying
  /\ transcriptionResult \in {[g EXCEPT !.audioUrl = u] : g \in GatewayResults, u \in 1..MaxUrls}
  /\ Len(transcriptionResult.segments) = 2
  /\ audio.currentTime = 20
  /\ currentWordIndex = NoWord

\* ------------------------------------------------------------ AudioRecorder
\* the recorder acts, the components around it stay as they are
RecorderFrame ==
  UNCHANGED <<host, mounted, mode, isTranscribing, selectedFile, isUploading,
              transcriptionResult, currentWordIndex, isPlaying, audio, pending,
              inflight, nextUrl, revoked, dom, effects, failed, request, response>>

\* setInterval returns an id no live interval has
NewTimer ==
  CHOOSE n \in 1..(2 * MaxStarts + 1) :
    n \notin timers /\ \A m \in 1..(n - 1) : m \in timers

RECURSIVE Chunks(_)
\* the chunks the recorders in ks have delivered, counted
Chunks(ks) ==
  IF ks = {} THEN 0
  ELSE LET k == CHOOSE x \in ks : TRUE
       IN Len(captured[k]) + Chunks(ks \ {k})

\* requestPermission: on mount while hasPermission is null, and the
\* "Grant Permission" button; its getUserMedia resolves or rejects
requestPermission(granted) ==
  /\ recMounted /\ hasPermission \in {"null", "false"}
  /\ IF granted
     THEN /\ hasPermission' = "true"
          /\ UNCHANGED error
     ELSE /\ hasPermission' = "false"
          /\ error' = "Microphone permission denied. Please allow microphone access to record audio."
  /\ UNCHANGED reports
  /\ UNCHANGED <<recMounted, isRecording, isPaused, mediaRecorderRef,
                 streamRef, audioContextRef, analyserRef, timerRef, animationRef,
                 chunksRef, acquiring, nextStart, recorders, captured, timers,
                 frames, completed>>
  /\ RecorderFrame
  /\ lastOp' = "requestPermission"

\* the start button (rendered while not recording): startRecording runs up to
\* the getUserMedia of initializeAudioContext
startRecording ==
  /\ recMounted /\ hasPermission # "false" /\ ~isRecording
  /\ nextStart <= MaxStarts
  /\ acquiring' = acquiring \cup {nextStart}
  /\ nextStart' = nextStart + 1
  /\ UNCHANGED <<recMounted, hasPermission, isRecording, isPaused, mediaRecorderRef, streamRef, audioContextRef, analyserRef, timerRef,
                 animationRef, chunksRef, recorders, captured, timers, frames,
                 completed, reports>>
  /\ UNCHANGED error
  /\ RecorderFrame
  /\ lastOp' = "startRecording"

\* call k of startRecording goes on after the microphone was acquired:
\* the rest of initializeAudioContext, then the MediaRecorder is set up and started
startRecordingResumed(k) ==
  /\ k \in acquiring
  /\ acquiring' = acquiring \ {k}
  /\ streamRef' = k
  /\ audioContextRef' = k
  /\ analyserRef' = k
  /\ mediaRecorderRef' = k
  /\ chunksRef' = <<>>
  /\ recorders' = [recorders EXCEPT ![k] = "recording"]
  /\ isRecording' = IF recMounted THEN TRUE ELSE isRecording
  /\ timerRef' = NewTimer
  /\ timers' = timers \cup {NewTimer}
  /\ animationRef' = k
  /\ frames' = frames \cup {k}
  /\ UNCHANGED <<recMounted, hasPermission, isPaused, nextStart, captured,
                 completed, reports>>
  /\ UNCHANGED error
  /\ RecorderFrame
  /\ lastOp' = "startRecordingResumed"

\* call k of startRecording fails: "microphone" is getUserMedia rejecting
\* inside initializeAudioContext (its catch reports and rethrows into the
\* catch of startRecording), "recorder" is new MediaRecorder throwing
startRecordingFailed(k, what) ==
  /\ k \in acquiring
  /\ acquiring' = acquiring \ {k}
  /\ IF what = "microphone"
     THEN /\ reports' =
               [reports EXCEPT ![k] =
                  @ \o <<"Failed to access microphone. Please check your permissions.",
                         "Failed to start recording. Please try again.">>]
          /\ UNCHANGED <<streamRef, audioContextRef, analyserRef>>
     ELSE /\ reports' =
               [reports EXCEPT ![k] =
                  Append(@, "Failed to start recording. Please try again.")]
          /\ streamRef' = k
          /\ audioContextRef' = k
          /\ analyserRef' = k
  /\ error' = "Failed to start recording. Please try again."
  /\ UNCHANGED <<recMounted, hasPermission, isRecording, isPaused, mediaRecorderRef, timerRef, animationRef, chunksRef, nextStart,
                 recorders, captured, timers, frames, completed>>
  /\ RecorderFrame
  /\ lastOp' = "startRecordingFailed"

\* mediaRecorder.ondataavailable of recorder k, with data (an empty event is
\* dropped): every 100 ms while recording, and once more when it stops
ondataavailable(k) ==
  /\ recorders[k] \in {"recording", "stopping"}
  /\ Chunks(Starts) < MaxChunks
  /\ LET chunk == <<k, Len(captured[k]) + 1>>
     IN /\ captured' = [captured EXCEPT ![k] = Append(@, chunk)]
        /\ chunksRef' = Append(chunksRef, chunk)
  /\ UNCHANGED <<recMounted, hasPermission, isRecording, isPaused, mediaRecorderRef, streamRef, audioContextRef, analyserRef, timerRef,
                 animationRef, acquiring, nextStart, recorders, timers, frames,
                 completed, reports>>
  /\ UNCHANGED error
  /\ RecorderFrame
  /\ lastOp' = "ondataavailable"

\* mutant: the stop button leaves isPaused as it is
stopRecording_KeepsPaused ==
  /\ recMounted /\ isRecording
  /\ mediaRecorderRef # NoRef
  /\ recorders[mediaRecorderRef] \in {"recording", "paused"}
  /\ recorders' = [recorders EXCEPT ![mediaRecorderRef] = "stopping"]
  /\ isRecording' = FALSE
  /\ frames' = frames \ {animationRef}
  /\ animationRef' = NoRef
  /\ UNCHANGED <<recMounted, hasPermission, isPaused, mediaRecorderRef, streamRef,
                 audioContextRef, analyserRef, timerRef, chunksRef, acquiring,
                 nextStart, captured, timers, completed, reports>>
  /\ UNCHANGED error
  /\ RecorderFrame
  /\ lastOp' = "stopRecording"

\* the stop button (rendered while recording)
stopRecording ==
  /\ recMounted /\ isRecording
  /\ mediaRecorderRef # NoRef
  /\ recorders[mediaRecorderRef] \in {"recording", "paused"}
  /\ recorders' = [recorders EXCEPT ![mediaRecorderRef] = "stopping"]
  /\ isRecording' = FALSE
  /\ isPaused' = FALSE
  /\ frames' = frames \ {animationRef}
  /\ animationRef' = NoRef
  /\ UNCHANGED <<recMounted, hasPermission, mediaRecorderRef, streamRef,
                 audioContextRef, analyserRef, timerRef, chunksRef, acquiring,
                 nextStart, captured, timers, completed, reports>>
  /\ UNCHANGED error
  /\ RecorderFrame
  /\ lastOp' = "stopRecording"

\* cleanup()
cleanup ==
  /\ timers' = timers \ {timerRef}
  /\ timerRef' = NoRef
  /\ frames' = frames \ {animationRef}
  /\ animationRef' = NoRef
  /\ streamRef' = NoRef
  /\ audioContextRef' = NoRef
  /\ analyserRef' = NoRef
  /\ mediaRecorderRef' = NoRef

\* mediaRecorder.onstop of recorder k: the blob of chunksRef.current goes to
\* onRecordingComplete, then cleanup()
onstop(k) ==
  /\ recorders[k] = "stopping"
  /\ recorders' = [recorders EXCEPT ![k] = "inactive"]
  /\ completed' = Append(completed, [recorder |-> k, chunks |-> chunksRef])
  /\ cleanup
  /\ UNCHANGED <<recMounted, hasPermission, isRecording, isPaused, chunksRef, acquiring, nextStart, captured, reports>>
  /\ UNCHANGED error
  /\ RecorderFrame
  /\ lastOp' = "onstop"

\* the pause / resume button (rendered while recording)
togglePause ==
  /\ recMounted /\ isRecording
  /\ mediaRecorderRef # NoRef
  /\ recorders[mediaRecorderRef] \in {"recording", "paused"}
  /\ IF isPaused
     THEN /\ recorders' = [recorders EXCEPT ![mediaRecorderRef] = "recording"]
          /\ isPaused' = FALSE
          /\ timerRef' = NewTimer
          /\ timers' = timers \cup {NewTimer}
     ELSE /\ recorders' = [recorders EXCEPT ![mediaRecorderRef] = "paused"]
          /\ isPaused' = TRUE
          /\ timers' = timers \ {timerRef}
          /\ timerRef' = NoRef
  /\ UNCHANGED <<recMounted, hasPermission, isRecording, mediaRecorderRef,
                 streamRef, audioContextRef, analyserRef, animationRef, chunksRef,
                 acquiring, nextStart, captured, frames, completed, reports>>
  /\ UNCHANGED error
  /\ RecorderFrame
  /\ lastOp' = "togglePause"

\* updateAudioLevel run by frame f: without an analyser the loop ends, otherwise
\* it requests its next frame and stores that in animationRef
updateAudioLevel(f) ==
  /\ f \in frames
  /\ IF analyserRef = NoRef
     THEN /\ frames' = frames \ {f}
          /\ UNCHANGED animationRef
     ELSE /\ animationRef' = f
          /\ UNCHANGED frames
  /\ UNCHANGED <<recMounted, hasPermission, isRecording, isPaused, mediaRecorderRef, streamRef, audioContextRef, analyserRef, timerRef,
                 chunksRef, acquiring, nextStart, recorders, captured, timers,
                 completed, reports>>
  /\ UNCHANGED error
  /\ RecorderFrame
  /\ lastOp' = "updateAudioLevel"

\* AudioRecorder unmounts: the effect's cleanup
unmount ==
  /\ recMounted
  /\ recMounted' = FALSE
  /\ cleanup
  /\ UNCHANGED <<hasPermission, isRecording, isPaused, chunksRef,
                 acquiring, nextStart, recorders, captured, completed, reports>>
  /\ UNCHANGED error
  /\ RecorderFrame
  /\ lastOp' = "unmount"

InitRecorder == Init /\ host = "input"

NextRecorder ==
  \/ \E granted \in BOOLEAN : requestPermission(granted)
  \/ startRecording
  \/ \E k \in Starts : startRecordingResumed(k)
  \/ \E k \in Starts, what \in {"microphone", "recorder"} : startRecordingFailed(k, what)
  \/ \E k \in Starts : ondataavailable(k)
  \/ stopRecording
  \/ \E k \in Starts : onstop(k)
  \/ togglePause
  \/ \E f \in frames : updateAudioLevel(f)
  \/ unmount

SpecRecorder == InitRecorder /\ [][NextRecorder]_vars

\* ---------------------------------------------------------------- C29
\* C29 amended: on the page hosting AudioInput the banner state takes the reported
\* string on every error callback (failed upload, failed recording attempt,
\* recorder error), is cleared on every completion callback, and is left
\* alone by every other step while the page stays mounted; so the banner is
\* shown exactly when the attempt that finished last failed.
C29_BannerFollowsLastAttempt ==
  [][(host = "input" /\ mounted) =>
       /\ \A r \in inflight, msg \in ErrorStrings :
            (transcribeAudioFail(r, msg) \/ handleRecordingCompleteFail(r, msg))
              => error' = msg
       /\ \A msg \in RecorderErrorStrings : onRecordingError(msg) => error' = msg
       /\ lastOp' \in {"transcribeAudio", "handleRecordingCompleteOk"}
            => error' = NoError
       /\ lastOp' \notin {"transcribeAudio", "handleRecordingCompleteOk",
                          "transcribeAudioFail", "handleRecordingCompleteFail",
                          "onRecordingError", "teardown"}
            => error' = error]_vars

\* C29 as stated: whether the banner is shown changes only when a transcription
\* attempt finishes (shown after a failed one, hidden after a successful one).
C29_Original ==
  [][(host = "input" /\ mounted) =>
       /\ lastOp' \in {"transcribeAudioFail", "handleRecordingCompleteFail"}
            => error' # NoError
       /\ lastOp' \in {"transcribeAudio", "handleRecordingCompleteOk"}
            => error' = NoError
       /\ lastOp' \notin {"transcribeAudio", "handleRecordingCompleteOk",
                          "transcribeAudioFail", "handleRecordingCompleteFail",
                          "teardown"}
            => ((error' = NoError) <=> (error = NoError))]_vars

\* a recording attempt succeeded after an earlier attempt had failed, and the
\* banner is gone
C29_Witness ==
  /\ host = "input" /\ mounted
  /\ lastOp = "handleRecordingCompleteOk"
  /\ failed # {}
  /\ error = NoError

\* ---------------------------------------------------------------- C22
\* call k of startRecording has ended without a recording
FailedStart(k) ==
  k < nextStart /\ k \notin acquiring /\ recorders[k] = "none"

\* C22: every failed attempt to start a recording (the microphone refused, or
\* the MediaRecorder not set up) has called onRecordingError exactly once, and
\* no other attempt has called it.
C22_OneReportPerFailedStart ==
  \A k \in Starts : Len(reports[k]) = IF FailedStart(k) THEN 1 ELSE 0

\* ---------------------------------------------------------------- C24
\* C24: at most one elapsed-time interval is live, and none while the recorder
\* is paused or not recording.
C24_SingleTimer ==
  /\ Cardinality(timers) <= 1
  /\ (isPaused \/ ~isRecording) => timers = {}

\* ---------------------------------------------------------------- C25
\* C25: when a stopped recorder k reports its stop, onRecordingComplete is
\* called once, with exactly the chunks recorder k delivered since its start,
\* in the order of arrival, and afterwards the timer, frame, stream, context,
\* analyser and recorder refs are all null.
C25_StopDeliversRecording ==
  [][\A k \in Starts :
       (recorders[k] = "stopping" /\ recorders'[k] = "inactive") =>
         /\ completed' = Append(completed, [recorder |-> k, chunks |-> captured[k]])
         /\ \A i \in 1..Len(completed) : completed[i].recorder # k
         /\ timerRef' = NoRef /\ animationRef' = NoRef /\ streamRef' = NoRef
         /\ audioContextRef' = NoRef /\ analyserRef' = NoRef
         /\ mediaRecorderRef' = NoRef]_vars

====
